---- MODULE Spec2Model ----
(***************************************************************************)
(* The postfix expression evaluator of                                     *)
(* research/gaia-x/graph_relation/core/src/expr/eval.rs: an Evaluator owns *)
(* a program (suffix_tree) and a scratch stack; eval takes the stackless   *)
(* fast path for programs of at most three units and walks the program     *)
(* with the stack otherwise.                                               *)
(***************************************************************************)
EXTENDS Integers, Sequences, FiniteSets, TLC

VARIABLES suffix_tree, stack, pc, idx, context, result, contexts, entry,
          wire, vertices, backups, last_id, restored, taken

\* suffix_tree, stack: the fields of Evaluator; pc, idx: the position of the
\* call of eval and of its loop; context: the argument of the call; result:
\* what the last call returned; contexts: the contexts the caller holds;
\* entry: the size of the stack when the last call was entered; wire: the
\* wire units the evaluator is built from
eval_vars ==
    <<suffix_tree, stack, pc, idx, context, result, contexts, entry, wire>>
\* vertices: the vertex ids of the graph store; backups: the backups the
\* backup engine holds, oldest first; last_id: the id of the last backup
\* created; restored: the backup id and the vertices of the last restored
\* store; taken: the vertices present when each backup id was created
backup_vars == <<vertices, backups, last_id, restored, taken>>
vars == <<eval_vars, backup_vars>>

(* ---------------------------- bounds ----------------------------------- *)

\* longest program of the mixed specification
MaxLen == 4
\* longest program of the arithmetic specification
MaxArithLen == 5

(* ------------------------- program constants --------------------------- *)

\* eval.rs:190, programs of at most this many units take the fast path
FastPathMax == 3

(* ------------------------------ values --------------------------------- *)
\* Option<BorrowObject>: every value is a record of the same shape, so that
\* values of different kinds can be compared.
NoneObj == [k |-> "None", n |-> 0, b |-> FALSE, s |-> ""]
Primitive(x) == [k |-> "Primitive", n |-> x, b |-> FALSE, s |-> ""]
Bool(x) == [k |-> "Bool", n |-> 0, b |-> x, s |-> ""]
String(x) == [k |-> "String", n |-> 0, b |-> FALSE, s |-> x]

IsSome(v) == v.k # "None"

(* ------------------------------ results -------------------------------- *)
\* ExprResult<T>, extended with the outcome "Panic" of a panicking macro and
\* with "NoResult" for an evaluator that has not returned yet.
Ok(v) == [kind |-> "Ok", err |-> "", val |-> v]
Err(e) == [kind |-> "Err", err |-> e, val |-> NoneObj]
Panic == [kind |-> "Panic", err |-> "", val |-> NoneObj]
NoResult == [kind |-> "NoResult", err |-> "", val |-> NoneObj]
\* the panics of a failed assert! and of unreachable!()
AssertionFailed == [kind |-> "Panic", err |-> "assertion failed", val |-> NoneObj]
Unreachable == [kind |-> "Panic", err |-> "unreachable", val |-> NoneObj]

EmptyExpression == "EmptyExpression"
NoneOperand == "NoneOperand"
MissingOperands == "MissingOperands"
MissingContext == "MissingContext"
\* a failed cast (as_bool, as_primitive), converted by `?`
TypeMismatch == "TypeMismatch"
\* "invalid expression".into()
InvalidExpression == "InvalidExpression"
Unimplemented == "Unimplemented"
DivisionByZero == "DivisionByZero"

(* ------------------------------- units --------------------------------- *)
\* enum InnerOpr; prop = "" is prop_key = None
Logical(op) == [t |-> "Logical", op |-> op, c |-> NoneObj, tag |-> "", prop |-> ""]
Arith(op) == [t |-> "Arith", op |-> op, c |-> NoneObj, tag |-> "", prop |-> ""]
Const(c) == [t |-> "Const", op |-> "", c |-> c, tag |-> "", prop |-> ""]
Var(tag, prop) == [t |-> "Var", op |-> "", c |-> NoneObj, tag |-> tag, prop |-> prop]

is_operand(u) == u.t \in {"Const", "Var"}

(* ------------------------------ contexts ------------------------------- *)
\* Option<&C>: some = FALSE is None.  bound: ctxt.get(tag) is Some(element);
\* bag: element.details() is Some(details); age: details.get("age");
\* id: element.as_borrow_object().
Ctx(some, bound, bag, age) ==
    [some |-> some, bound |-> bound, bag |-> bag, age |-> age, id |-> Primitive(1)]

NoCtx == Ctx(FALSE, FALSE, FALSE, NoneObj)
EmptyCtx == Ctx(TRUE, FALSE, FALSE, NoneObj)
CtxAge == Ctx(TRUE, TRUE, TRUE, Primitive(42))
CtxNoAge == Ctx(TRUE, TRUE, TRUE, NoneObj)
CtxNoBag == Ctx(TRUE, TRUE, FALSE, NoneObj)

AllContexts == {NoCtx, EmptyCtx, CtxAge, CtxNoAge, CtxNoBag}

\* Context::get(tag): the contexts bind the single tag "a"
CtxGet(ctxt, tag) == ctxt.bound /\ tag = "a"
\* Details::get(property)
DetailsGet(ctxt, property) == IF property = "age" THEN ctxt.age ELSE NoneObj

(* ------------------------- the value model ----------------------------- *)
\* BorrowObject::as_bool: Bool(b) is b, Primitive(n) is n != 0, anything
\* else is a failed cast.
as_bool(v) ==
    IF v.k = "Bool" THEN Ok(Bool(v.b))
    ELSE IF v.k = "Primitive" THEN Ok(Bool(v.n # 0))
    ELSE Err(TypeMismatch)

\* BorrowObject::as_primitive: only a Primitive is accepted.
as_primitive(v) ==
    IF v.k = "Primitive" THEN Ok(v) ELSE Err(TypeMismatch)

\* the order of strings
StrRank(x) == CASE x = "" -> 0 [] x = "s" -> 1 [] x = "t" -> 2 [] OTHER -> 3

\* PartialEq and PartialOrd of BorrowObject.  eval.rs:111-116 wraps the
\* outcome of each comparison with .into() and no `?`: a comparison yields a
\* bool for every pair of values; values of different kinds are unordered
\* and unequal.
ObjEq(a, b) == a = b
ObjLt(a, b) ==
    /\ a.k = b.k
    /\ CASE a.k = "Primitive" -> a.n < b.n
         [] a.k = "Bool" -> ~a.b /\ b.b
         [] a.k = "String" -> StrRank(a.s) < StrRank(b.s)
         [] OTHER -> FALSE
ObjLe(a, b) == a.k = b.k /\ (ObjLt(a, b) \/ ObjEq(a, b))

\* integer division truncates toward zero; the remainder has the sign of the
\* dividend
Abs(x) == IF x < 0 THEN -x ELSE x
TruncDiv(a, b) ==
    IF (a < 0) = (b < 0) THEN Abs(a) \div Abs(b) ELSE -(Abs(a) \div Abs(b))
TruncRem(a, b) == a - b * TruncDiv(a, b)

\* The arithmetic of Primitive.  eval.rs:85-90 wraps the outcome of each
\* operator in BorrowObject::Primitive with no `?`: the operator yields a
\* Primitive or does not return; an integer division or remainder by zero
\* does not return (it panics).  Exp, whose result on a negative exponent is
\* a float, is outside the integer values modelled here.
PrimArith(arith, a, b) ==
    CASE arith = "Add" -> Ok(Primitive(a + b))
      [] arith = "Sub" -> Ok(Primitive(a - b))
      [] arith = "Mul" -> Ok(Primitive(a * b))
      [] arith = "Div" -> IF b = 0 THEN Panic ELSE Ok(Primitive(TruncDiv(a, b)))
      [] arith = "Mod" -> IF b = 0 THEN Panic ELSE Ok(Primitive(TruncRem(a, b)))

(* --------------------------- the operators ----------------------------- *)
\* fn apply_arith
apply_arith(arith, first, second) ==
    IF IsSome(first) /\ IsSome(second) THEN
        LET a == as_primitive(first)
            b == as_primitive(second)
        IN  IF a.kind # "Ok" THEN a
            ELSE IF b.kind # "Ok" THEN b
            ELSE PrimArith(arith, a.val.n, b.val.n)
    ELSE Err(MissingOperands)

\* the match of apply_logical converting both operands of And and Or before
\* combining them
apply_binary_logical_eager(logical, a, b) ==
    CASE logical = "Eq" -> Ok(Bool(ObjEq(a, b)))
      [] logical = "Ne" -> Ok(Bool(~ObjEq(a, b)))
      [] logical = "Lt" -> Ok(Bool(ObjLt(a, b)))
      [] logical = "Le" -> Ok(Bool(ObjLe(a, b)))
      [] logical = "Gt" -> Ok(Bool(ObjLt(b, a)))
      [] logical = "Ge" -> Ok(Bool(ObjLe(b, a)))
      [] logical \in {"And", "Or"} ->
            LET x == as_bool(a)
                y == as_bool(b)
            IN  IF x.kind # "Ok" THEN x
                ELSE IF y.kind # "Ok" THEN y
                ELSE IF logical = "And" THEN Ok(Bool(x.val.b /\ y.val.b))
                ELSE Ok(Bool(x.val.b \/ y.val.b))
      [] OTHER -> Panic

\* the match of apply_logical rejecting a comparison of values of different
\* kinds
apply_binary_logical_same_kind(logical, a, b) ==
    CASE logical \in {"Eq", "Ne", "Lt", "Le", "Gt", "Ge"} /\ a.k # b.k ->
            Err(TypeMismatch)
      [] logical = "Eq" /\ a.k = b.k -> Ok(Bool(ObjEq(a, b)))
      [] logical = "Ne" /\ a.k = b.k -> Ok(Bool(~ObjEq(a, b)))
      [] logical = "Lt" /\ a.k = b.k -> Ok(Bool(ObjLt(a, b)))
      [] logical = "Le" /\ a.k = b.k -> Ok(Bool(ObjLe(a, b)))
      [] logical = "Gt" /\ a.k = b.k -> Ok(Bool(ObjLt(b, a)))
      [] logical = "Ge" /\ a.k = b.k -> Ok(Bool(ObjLe(b, a)))
      [] logical = "And" ->
            LET x == as_bool(a) IN
            IF x.kind # "Ok" THEN x
            ELSE IF ~x.val.b THEN Ok(Bool(FALSE))
            ELSE as_bool(b)
      [] logical = "Or" ->
            LET x == as_bool(a) IN
            IF x.kind # "Ok" THEN x
            ELSE IF x.val.b THEN Ok(Bool(TRUE))
            ELSE as_bool(b)
      [] OTHER -> Panic

\* the match of apply_logical (eval.rs:110-122) on two present operands.
\* `x.as_bool()? && y.as_bool()?` converts y only when x is true, and
\* `||` only when x is false.  Not is unreachable!() here and every other
\* code (Within, Without) is unimplemented!(): both macros panic.
apply_binary_logical(logical, a, b) ==
    CASE logical = "Eq" -> Ok(Bool(ObjEq(a, b)))
      [] logical = "Ne" -> Ok(Bool(~ObjEq(a, b)))
      [] logical = "Lt" -> Ok(Bool(ObjLt(a, b)))
      [] logical = "Le" -> Ok(Bool(ObjLe(a, b)))
      [] logical = "Gt" -> Ok(Bool(ObjLt(b, a)))
      [] logical = "Ge" -> Ok(Bool(ObjLe(b, a)))
      [] logical = "And" ->
            LET x == as_bool(a) IN
            IF x.kind # "Ok" THEN x
            ELSE IF ~x.val.b THEN Ok(Bool(FALSE))
            ELSE as_bool(b)
      [] logical = "Or" ->
            LET x == as_bool(a) IN
            IF x.kind # "Ok" THEN x
            ELSE IF x.val.b THEN Ok(Bool(TRUE))
            ELSE as_bool(b)
      [] logical = "Not" -> Unreachable
      [] OTHER -> Panic

\* fn apply_logical without its unary branch: Not is matched as the binary
\* operators are
apply_logical_binary_only(logical, first, second) ==
    IF IsSome(first) /\ IsSome(second)
    THEN apply_binary_logical(logical, first, second)
    ELSE Err(MissingOperands)

\* fn apply_logical
apply_logical(logical, first, second) ==
    IF logical = "Not" THEN
        IF IsSome(first) THEN
            LET x == as_bool(first) IN
            IF x.kind # "Ok" THEN x ELSE Ok(Bool(~x.val.b))
        ELSE Err(MissingOperands)
    ELSE
        IF IsSome(first) /\ IsSome(second)
        THEN apply_binary_logical(logical, first, second)
        ELSE Err(MissingOperands)

(* ------------------------ operand resolution --------------------------- *)
\* operand resolution in which a Var that finds no element resolves to
\* nothing instead of failing
eval_as_borrow_object_lenient(u, ctxt) ==
    CASE u.t = "Const" -> Ok(u.c)
      [] u.t = "Var" ->
            IF ctxt.some /\ u.prop # "" /\ CtxGet(ctxt, u.tag) /\ ctxt.bag
            THEN Ok(DetailsGet(ctxt, u.prop))
            ELSE IF ctxt.some /\ u.prop = "" /\ CtxGet(ctxt, u.tag)
            THEN Ok(ctxt.id)
            ELSE Ok(NoneObj)
      [] OTHER -> Ok(NoneObj)

\* InnerOpr::eval_as_borrow_object: Ok(Some(v)), Ok(None) (as Ok(NoneObj))
\* or Err(MissingContext)
eval_as_borrow_object(u, ctxt) ==
    CASE u.t = "Const" -> Ok(u.c)
      [] u.t = "Var" ->
            IF ctxt.some /\ u.prop # "" /\ CtxGet(ctxt, u.tag) /\ ctxt.bag
            THEN Ok(DetailsGet(ctxt, u.prop))
            ELSE IF ctxt.some /\ u.prop = "" /\ CtxGet(ctxt, u.tag)
            THEN Ok(ctxt.id)
            ELSE Err(MissingContext)
      [] OTHER -> Ok(NoneObj)

(* ---------------------------- the fast path ---------------------------- *)
\* the fast path with its two-unit branch dispatching on an arithmetic
\* operator as its three-unit branch does
eval_without_stack_arith2(tree, ctxt) ==
    IF Len(tree) > FastPathMax THEN Panic
    ELSE IF Len(tree) = 0 THEN Err(EmptyExpression)
    ELSE IF Len(tree) = 1 THEN
        LET r == eval_as_borrow_object(tree[1], ctxt) IN
        IF r.kind # "Ok" THEN r
        ELSE IF IsSome(r.val) THEN r ELSE Err(NoneOperand)
    ELSE IF Len(tree) = 2 THEN
        IF tree[2].t \in {"Logical", "Arith"} THEN
            LET r0 == eval_as_borrow_object(tree[1], ctxt) IN
            IF r0.kind # "Ok" THEN r0
            ELSE IF tree[2].t = "Logical"
                 THEN apply_logical(tree[2].op, r0.val, NoneObj)
                 ELSE apply_arith(tree[2].op, r0.val, NoneObj)
        ELSE Err(InvalidExpression)
    ELSE
        IF tree[3].t \in {"Logical", "Arith"} THEN
            LET r0 == eval_as_borrow_object(tree[1], ctxt)
                r1 == eval_as_borrow_object(tree[2], ctxt)
            IN  IF r0.kind # "Ok" THEN r0
                ELSE IF r1.kind # "Ok" THEN r1
                ELSE IF tree[3].t = "Logical"
                     THEN apply_logical(tree[3].op, r0.val, r1.val)
                     ELSE apply_arith(tree[3].op, r0.val, r1.val)
        ELSE Err(InvalidExpression)

\* Evaluator::eval_without_stack.  The arguments of apply_* are resolved in
\* order and the first failing `?` returns.
eval_without_stack(tree, ctxt) ==
    IF Len(tree) > FastPathMax THEN AssertionFailed
    ELSE IF Len(tree) = 0 THEN Err(EmptyExpression)
    ELSE IF Len(tree) = 1 THEN
        LET r == eval_as_borrow_object(tree[1], ctxt) IN
        IF r.kind # "Ok" THEN r
        ELSE IF IsSome(r.val) THEN r ELSE Err(NoneOperand)
    ELSE IF Len(tree) = 2 THEN
        IF tree[2].t = "Logical" THEN
            LET r0 == eval_as_borrow_object(tree[1], ctxt) IN
            IF r0.kind # "Ok" THEN r0
            ELSE apply_logical(tree[2].op, r0.val, NoneObj)
        ELSE Err(InvalidExpression)
    ELSE
        IF tree[3].t \in {"Logical", "Arith"} THEN
            LET r0 == eval_as_borrow_object(tree[1], ctxt)
                r1 == eval_as_borrow_object(tree[2], ctxt)
            IN  IF r0.kind # "Ok" THEN r0
                ELSE IF r1.kind # "Ok" THEN r1
                ELSE IF tree[3].t = "Logical"
                     THEN apply_logical(tree[3].op, r0.val, r1.val)
                     ELSE apply_arith(tree[3].op, r0.val, r1.val)
        ELSE Err(InvalidExpression)

(* --------------------------- the general path -------------------------- *)
\* Vec::pop: the popped value (None on an empty stack) and the rest
Top(st) == IF Len(st) = 0 THEN NoneObj ELSE st[Len(st)]
Pop(st) == IF Len(st) = 0 THEN st ELSE SubSeq(st, 1, Len(st) - 1)

\* the outcome of one unit: the stack it leaves and the result it returns
\* (NoResult: the walk goes on)
Goes(st) == [stack |-> st, r |-> NoResult]
Returns(st, r) == [stack |-> st, r |-> r]

\* `let rst = apply_..(..)?; stack.push(rst);`
PushOrReturn(st, r) ==
    IF r.kind = "Ok" THEN Goes(Append(st, r.val)) ELSE Returns(st, r)

\* the body of the loop of eval (eval.rs:195-218) on one unit
WalkUnit(opr, ctxt, st) ==
    IF is_operand(opr) THEN
        LET r == eval_as_borrow_object(opr, ctxt) IN
        IF r.kind # "Ok" THEN Returns(st, r)
        ELSE IF IsSome(r.val) THEN Goes(Append(st, r.val))
        ELSE Returns(st, Err(NoneOperand))
    ELSE
        LET first == Top(st)
            st1 == Pop(st)
        IN  IF opr.t = "Logical" THEN
                IF opr.op = "Not"
                THEN PushOrReturn(st1, apply_logical(opr.op, first, NoneObj))
                ELSE PushOrReturn(Pop(st1), apply_logical(opr.op, Top(st1), first))
            ELSE IF opr.t = "Arith" THEN
                PushOrReturn(Pop(st1), apply_arith(opr.op, Top(st1), first))
            ELSE Returns(st1, Unreachable)

\* the end of eval, returning the top of the stack without popping it
WalkEndKeepsTop(st) ==
    IF Len(st) = 1 THEN Returns(st, Ok(Top(st)))
    ELSE Returns(st, Err(InvalidExpression))

\* the end of eval returning the top of any non-empty stack
WalkEndAnyTop(st) ==
    IF Len(st) >= 1 THEN Returns(Pop(st), Ok(Top(st)))
    ELSE Returns(st, Err(InvalidExpression))

\* the end of eval (eval.rs:221-225)
WalkEnd(st) ==
    IF Len(st) = 1 THEN Returns(Pop(st), Ok(Top(st)))
    ELSE Returns(st, Err(InvalidExpression))

\* the walk starting from the stack as the last call left it
EntryStackKept(st) == st

\* the stack the walk starts from: `stack.clear()` (eval.rs:193)
EntryStack(st) == <<>>

\* the walk of eval (eval.rs:193-225) from unit i on, run to its return
RECURSIVE RunWalk(_, _, _, _)
RunWalk(tree, ctxt, i, st) ==
    IF i > Len(tree) THEN WalkEnd(st)
    ELSE LET o == WalkUnit(tree[i], ctxt, st) IN
         IF o.r.kind # "NoResult" THEN o ELSE RunWalk(tree, ctxt, i + 1, o.stack)

(* ------------------------------ programs ------------------------------- *)
\* the programs of at most n units over the units U
Programs(U, n) == UNION {[1..k -> U] : k \in 0..n}

(* ---------------------------- the wire form ---------------------------- *)
\* pb::ExprUnit: item is "Empty" (no item set), "Logical", "Arith", "Const"
\* or "Var"; code is the i32 of a logical or arithmetic unit; value
\* describes the value of a pb::Const ("NoValue": no value, "NoItem": a value
\* with no item, else the kind of the item) and obj is its scalar; has_tag
\* tells whether var.tag is set.
WireUnit(item, code, value, obj, has_tag, tag, prop) ==
    [item |-> item, code |-> code, value |-> value, obj |-> obj,
     has_tag |-> has_tag, tag |-> tag, prop |-> prop]
WEmpty == WireUnit("Empty", 0, "", NoneObj, FALSE, "", "")
WLogical(code) == WireUnit("Logical", code, "", NoneObj, FALSE, "", "")
WArith(code) == WireUnit("Arith", code, "", NoneObj, FALSE, "", "")
WConst(value, obj) == WireUnit("Const", 0, value, obj, FALSE, "", "")
WVar(tag, prop) == WireUnit("Var", 0, "", NoneObj, TRUE, tag, prop)
WVarNoTag == WireUnit("Var", 0, "", NoneObj, FALSE, "", "")

\* the codes of pb::Logical and pb::Arithmetic
LogicalCodes ==
    <<"Eq", "Ne", "Lt", "Le", "Gt", "Ge", "And", "Or", "Not", "Within",
      "Without">>
ArithCodes == <<"Add", "Sub", "Mul", "Div", "Exp", "Mod">>

\* an operator value that is none of the enumeration
OutOfRange == "OutOfRange"

\* the code of an operator name
CodeOf(codes, name) == (CHOOSE i \in 1..Len(codes) : codes[i] = name) - 1

\* the wire unit the upstream compiler emits for a unit
ToWire(u) ==
    CASE u.t = "Logical" -> WLogical(CodeOf(LogicalCodes, u.op))
      [] u.t = "Arith" -> WArith(CodeOf(ArithCodes, u.op))
      [] u.t = "Var" -> WVar(u.tag, u.prop)
      [] u.t = "Const" ->
            WConst(CASE u.c.k = "None" -> "None"
                     [] u.c.k = "Bool" -> "Boolean"
                     [] u.c.k = "Primitive" -> "I32"
                     [] u.c.k = "String" -> "Str", u.c)

\* the outcome of a translation: Ok(v), the error InvalidPb or a panic
InvalidPb == "InvalidPb"
Built(v) == [kind |-> "Ok", v |-> v]
NotBuilt(kind) == [kind |-> kind, v |-> <<>>]

\* pb::Const::into_object
into_object(w) ==
    CASE w.value \in {"Boolean", "I32", "I64", "F64", "Str", "Blob"} ->
            Built(w.obj)
      [] w.value = "None" -> Built(NoneObj)
      [] w.value \in {"I32Array", "I64Array", "F64Array", "StrArray"} ->
            NotBuilt("Err")
      [] OTHER -> NotBuilt("Err")

\* std::mem::transmute of a code to the enum: the enum value of a defined
\* code; on any other code the behaviour is undefined, and the build either
\* carries on with a value outside the enumeration or crashes
Transmute(codes, code) ==
    IF code \in 0..(Len(codes) - 1) THEN {Built(codes[code + 1])}
    ELSE {Built(OutOfRange), NotBuilt("Panic")}

\* InnerOpr::from_pb: the outcomes of translating one wire unit
inner_from_pb(w) ==
    CASE w.item = "Empty" -> {NotBuilt("Err")}
      [] w.item = "Logical" ->
            {IF o.kind = "Ok" THEN Built(Logical(o.v)) ELSE o :
                o \in Transmute(LogicalCodes, w.code)}
      [] w.item = "Arith" ->
            {IF o.kind = "Ok" THEN Built(Arith(o.v)) ELSE o :
                o \in Transmute(ArithCodes, w.code)}
      [] w.item = "Const" ->
            LET o == into_object(w) IN
            {IF o.kind = "Ok" THEN Built(Const(o.v)) ELSE o}
      [] w.item = "Var" ->
            IF w.has_tag THEN {Built(Var(w.tag, w.prop))}
            ELSE {NotBuilt("Panic")}

\* Evaluator::from_pb: the outcomes of the loop over the wire units from
\* unit i on, given the units built so far
RECURSIVE from_pb(_, _, _)
from_pb(ws, i, inner_tree) ==
    IF i > Len(ws) THEN {Built(inner_tree)}
    ELSE UNION {IF o.kind = "Ok"
                THEN from_pb(ws, i + 1, Append(inner_tree, o.v))
                ELSE {o} : o \in inner_from_pb(ws[i])}

(* --------------------------- the backup engine ------------------------- *)
\* the vertex ids in use, and the number of backups created in a run
VertexIds == {1, 2}
MaxBackups == 3

\* a backup: its id and the vertices it holds
Backup(id, vs) == [id |-> id, vertices |-> vs]

\* the backup restore_from_latest_backup restores
LatestBackupFirst(bs) == bs[1]
LatestBackup(bs) == bs[Len(bs)]

\* the backups purge_old_backups(n) keeps: the n latest
KeptBackups(bs, n) ==
    IF Len(bs) <= n THEN bs ELSE SubSeq(bs, Len(bs) - n + 1, Len(bs))

\* the state of a store with no vertex and no backup
NoBackups ==
    /\ vertices = {}
    /\ backups = <<>>
    /\ last_id = 0
    /\ restored = Backup(0, {})
    /\ taken = <<>>

(* ----------------------------- the actions ----------------------------- *)
\* the state after Evaluator::from_pb built the program (eval.rs:69-72); the
\* caller holds the contexts C
InitOver(U, n, C) ==
    /\ suffix_tree \in Programs(U, n)
    /\ stack = <<>>
    /\ pc = "idle"
    /\ idx = 0
    /\ context = NoCtx
    /\ result = NoResult
    /\ contexts = C
    /\ entry = 0
    /\ wire = [i \in DOMAIN suffix_tree |-> ToWire(suffix_tree[i])]
    /\ NoBackups

\* Evaluator::from_pb on the wire units: an evaluator with an empty stack,
\* an error, or a panic
FromPb ==
    /\ pc = "new"
    /\ \E o \in from_pb(wire, 1, <<>>) :
          /\ suffix_tree' = o.v
          /\ pc' = IF o.kind = "Ok" THEN "idle" ELSE "failed"
          /\ result' = CASE o.kind = "Ok" -> NoResult
                          [] o.kind = "Err" -> Err(InvalidPb)
                          [] o.kind = "Panic" -> Panic
    /\ stack' = <<>>
    /\ UNCHANGED <<idx, context, contexts, entry, wire>>
    /\ UNCHANGED backup_vars

\* Evaluator::eval on a program of at most three units (eval.rs:189-192)
EvalFast(ctxt) ==
    /\ pc \in {"idle", "done"}
    /\ Len(suffix_tree) <= FastPathMax
    /\ result' = eval_without_stack(suffix_tree, ctxt)
    /\ context' = ctxt
    /\ pc' = "done"
    /\ entry' = Len(stack)
    /\ UNCHANGED <<suffix_tree, stack, idx, contexts, wire>>
    /\ UNCHANGED backup_vars

\* Evaluator::eval on a longer program, up to the loop (eval.rs:189-193)
EvalBegin(ctxt) ==
    /\ pc \in {"idle", "done"}
    /\ Len(suffix_tree) > FastPathMax
    /\ stack' = EntryStack(stack)
    /\ idx' = 1
    /\ context' = ctxt
    /\ result' = NoResult
    /\ pc' = "running"
    /\ entry' = Len(stack)
    /\ UNCHANGED <<suffix_tree, contexts, wire>>
    /\ UNCHANGED backup_vars

\* one turn of the loop of eval (eval.rs:194-219)
EvalUnit ==
    /\ pc = "running"
    /\ idx <= Len(suffix_tree)
    /\ LET o == WalkUnit(suffix_tree[idx], context, stack) IN
        /\ stack' = o.stack
        /\ result' = o.r
        /\ IF o.r.kind = "NoResult"
           THEN idx' = idx + 1 /\ pc' = "running"
           ELSE idx' = idx /\ pc' = "done"
    /\ UNCHANGED <<suffix_tree, context, contexts, entry, wire>>
    /\ UNCHANGED backup_vars

\* the return of eval after the loop (eval.rs:221-225)
EvalEnd ==
    /\ pc = "running"
    /\ idx > Len(suffix_tree)
    /\ LET o == WalkEnd(stack) IN
        /\ stack' = o.stack
        /\ result' = o.r
    /\ pc' = "done"
    /\ UNCHANGED <<suffix_tree, idx, context, contexts, entry, wire>>
    /\ UNCHANGED backup_vars

\* Evaluator::reset
Reset ==
    /\ pc \in {"idle", "done"}
    /\ stack' = <<>>
    /\ pc' = "idle"
    /\ UNCHANGED <<suffix_tree, idx, context, result, contexts, entry, wire>>
    /\ UNCHANGED backup_vars

Next ==
    \/ \E ctxt \in contexts : EvalFast(ctxt)
    \/ \E ctxt \in contexts : EvalBegin(ctxt)
    \/ EvalUnit
    \/ EvalEnd
    \/ Reset

(* -------------------------- the specifications ------------------------- *)
\* operands that resolve, fail to resolve or are null, a comparison, Not and
\* an arithmetic operator, under every context
MixedUnits ==
    {Const(Primitive(30)), Const(NoneObj), Var("a", "age"), Var("a", ""),
     Logical("Gt"), Logical("Not"), Arith("Add")}

Init == InitOver(MixedUnits, MaxLen, AllContexts)
Spec == Init /\ [][Next]_vars

\* constants and non-commutative operators, as the unit tests evaluate them
\* (with no context)
ArithUnits ==
    {Const(Primitive(6)), Const(Primitive(2)), Const(Primitive(3)),
     Arith("Sub"), Arith("Div"), Logical("Not")}

InitArith == InitOver(ArithUnits, MaxArithLen, {NoCtx})
SpecArith == InitArith /\ [][Next]_vars

\* the reserved logical operators Within and Without
ReservedUnits ==
    {Const(Primitive(1)), Const(NoneObj), Logical("Within"),
     Logical("Without"), Logical("Not")}

InitReserved == InitOver(ReservedUnits, MaxLen, {NoCtx})
SpecReserved == InitReserved /\ [][Next]_vars

\* booleans, a number and a string under And, Or and two comparisons, with
\* no context
LogicUnits ==
    {Const(Bool(TRUE)), Const(Bool(FALSE)), Const(String("s")),
     Const(Primitive(0)), Logical("And"), Logical("Or"), Logical("Eq"),
     Logical("Lt")}

InitLogic == InitOver(LogicUnits, MaxLen, {NoCtx})
SpecLogic == InitLogic /\ [][Next]_vars

\* numbers and a zero under Div, Mod and Sub, with no context
DivUnits ==
    {Const(Primitive(6)), Const(Primitive(0)), Arith("Div"), Arith("Mod"),
     Arith("Sub")}

InitDiv == InitOver(DivUnits, MaxLen, {NoCtx})
SpecDiv == InitDiv /\ [][Next]_vars

NextPb == FromPb \/ Next

\* GraphStorage::insert_overwrite_vertex
InsertVertex(v) ==
    /\ vertices' = vertices \cup {v}
    /\ UNCHANGED <<backups, last_id, restored, taken>>
    /\ UNCHANGED eval_vars

\* GraphStorage::delete_vertex
DeleteVertex(v) ==
    /\ vertices' = vertices \ {v}
    /\ UNCHANGED <<backups, last_id, restored, taken>>
    /\ UNCHANGED eval_vars

\* create_new_backup: a backup of the store as it is, under the next id
CreateNewBackup ==
    /\ last_id < MaxBackups
    /\ last_id' = last_id + 1
    /\ backups' = Append(backups, Backup(last_id + 1, vertices))
    /\ taken' = Append(taken, vertices)
    /\ UNCHANGED <<vertices, restored>>
    /\ UNCHANGED eval_vars

\* restore_from_backup(path, k): the store at path holds the backup of id k
RestoreFromBackup(k) ==
    /\ \E i \in DOMAIN backups :
          /\ backups[i].id = k
          /\ restored' = backups[i]
    /\ UNCHANGED <<vertices, backups, last_id, taken>>
    /\ UNCHANGED eval_vars

\* restore_from_latest_backup(path)
RestoreFromLatestBackup ==
    /\ backups # <<>>
    /\ restored' = LatestBackup(backups)
    /\ UNCHANGED <<vertices, backups, last_id, taken>>
    /\ UNCHANGED eval_vars

\* purge_old_backups(n)
PurgeOldBackups(n) ==
    /\ Len(backups) > n
    /\ backups' = KeptBackups(backups, n)
    /\ UNCHANGED <<vertices, last_id, restored, taken>>
    /\ UNCHANGED eval_vars

NextBackup ==
    \/ \E v \in VertexIds : InsertVertex(v)
    \/ \E v \in VertexIds : DeleteVertex(v)
    \/ CreateNewBackup
    \/ RestoreFromLatestBackup
    \/ \E k \in 1..MaxBackups : RestoreFromBackup(k)
    \/ \E n \in 1..MaxBackups : PurgeOldBackups(n)

\* a store with no vertex, a backup engine with no backup
InitBackup ==
    /\ NoBackups
    /\ suffix_tree = <<>>
    /\ wire = <<>>
    /\ stack = <<>>
    /\ pc = "idle"
    /\ idx = 0
    /\ context = NoCtx
    /\ result = NoResult
    /\ contexts = {NoCtx}
    /\ entry = 0
SpecBackup == InitBackup /\ [][NextBackup]_vars

\* wire units of every kind, translatable or not, before the evaluator is
\* built
WireUnits ==
    {WEmpty, WLogical(8), WLogical(99), WArith(1),
     WConst("I32", Primitive(1)), WConst("None", NoneObj),
     WConst("NoItem", NoneObj), WConst("I32Array", NoneObj), WVarNoTag}

InitPb ==
    /\ wire \in Programs(WireUnits, MaxLen)
    /\ suffix_tree = <<>>
    /\ stack = <<>>
    /\ pc = "new"
    /\ idx = 0
    /\ context = NoCtx
    /\ result = NoResult
    /\ contexts = {NoCtx}
    /\ entry = 0
    /\ NoBackups
SpecPb == InitPb /\ [][NextPb]_vars

TypeOK ==
    /\ pc \in {"new", "failed", "idle", "running", "done"}
    /\ idx \in 0..(Len(suffix_tree) + 1)
    /\ context \in contexts
    /\ Len(stack) <= Len(suffix_tree)
    /\ entry \in 0..Len(suffix_tree)

(* ------------------------------ properties ------------------------------ *)
\* eval has returned
Returned == pc = "done"
FastPath == Len(suffix_tree) <= FastPathMax

\* C1 (as stated): after any call of eval, whatever it returns and whichever
\* path it takes, the stack of the evaluator is empty.
C1_StackEmptyAfterEval == Returned => Len(stack) = 0

\* C1 (amended): after a call of eval that returns a value, and after any
\* call that takes the fast path, the stack is empty; a walk that returns an
\* error leaves on the stack only values it pushed itself (fewer than the
\* units it processed).
C1_StackEmptyAfterValue ==
    Returned =>
        /\ (result.kind = "Ok" \/ FastPath) => Len(stack) = 0
        /\ (result.kind # "Ok" /\ ~FastPath) => Len(stack) < idx

\* a walk returned a value, and a walk returned an error with values left
C1_Witness ==
    /\ Returned /\ ~FastPath /\ result.kind = "Ok" /\ Len(stack) = 0
    /\ entry > 0

\* the result of eval on an evaluator just built from the program
FreshResult(tree, ctxt) ==
    IF Len(tree) <= FastPathMax
    THEN eval_without_stack(tree, ctxt)
    ELSE RunWalk(tree, ctxt, 1, <<>>).r

\* C2: whatever calls came before on this evaluator (failed ones that left
\* values on the stack included), eval(P, C) returns what a freshly built
\* evaluator returns for P and C: the result depends on P and C alone, so
\* two calls of eval(P, C) agree.
C2_Deterministic == Returned => result = FreshResult(suffix_tree, context)

\* a walk entered with values left on the stack by an earlier failed call
\* returned a value
C2_Witness ==
    /\ Returned /\ ~FastPath /\ entry > 0
    /\ result.kind = "Ok" /\ context = CtxAge

\* C3: on every program of at most three units and every context, the fast
\* path returns what the stack walk of eval returns on the same program and
\* context (the same value or the same error).
C3_FastPathEquivalence ==
    (Returned /\ FastPath) =>
        result = RunWalk(suffix_tree, context, 1, <<>>).r

\* the number of operands a unit consumes
Arity(u) ==
    IF is_operand(u) THEN 0
    ELSE IF u.t = "Logical" /\ u.op = "Not" THEN 1
    ELSE 2

\* the first unit of the well-formed postfix expression whose last unit is
\* unit e (0 when there is none)
RECURSIVE SubStart(_, _)
SubStart(tree, e) ==
    IF e < 1 THEN 0
    ELSE IF Arity(tree[e]) = 0 THEN e
    ELSE IF Arity(tree[e]) = 1 THEN SubStart(tree, e - 1)
    ELSE LET r == SubStart(tree, e - 1) IN
         IF r = 0 THEN 0 ELSE SubStart(tree, r - 1)

WellFormed(tree) == Len(tree) >= 1 /\ SubStart(tree, Len(tree)) = 1

\* the value of the expression tree of the well-formed postfix expression of
\* constants that ends at unit e: the right operand of a binary operator is
\* the expression ending just before the operator (pushed later), its left
\* operand the expression ending just before the right one (pushed
\* earlier); the left operand is evaluated first
RECURSIVE TreeValue(_, _)
TreeValue(tree, e) ==
    LET u == tree[e] IN
    IF Arity(u) = 0 THEN Ok(u.c)
    ELSE IF Arity(u) = 1 THEN
        LET x == TreeValue(tree, e - 1) IN
        IF x.kind # "Ok" THEN x ELSE apply_logical(u.op, x.val, NoneObj)
    ELSE
        LET l == TreeValue(tree, SubStart(tree, e - 1) - 1)
            r == TreeValue(tree, e - 1)
        IN  IF l.kind # "Ok" THEN l
            ELSE IF r.kind # "Ok" THEN r
            ELSE IF u.t = "Arith" THEN apply_arith(u.op, l.val, r.val)
            ELSE apply_logical(u.op, l.val, r.val)

SixTwoSub == <<Const(Primitive(6)), Const(Primitive(2)), Arith("Sub")>>
SixTwoThreeSubDiv ==
    <<Const(Primitive(6)), Const(Primitive(2)), Const(Primitive(3)),
      Arith("Sub"), Arith("Div")>>

\* C4: on a well-formed postfix program of constants, binary operators and
\* Not, of any length, eval returns the value of the expression tree in
\* which each binary operator takes the operand pushed earlier as its left
\* operand and the one pushed later as its right operand: 6 2 - is 4 and
\* 6 2 3 - / is -6.
C4_OperandOrder ==
    Returned =>
        /\ WellFormed(suffix_tree) =>
              result = TreeValue(suffix_tree, Len(suffix_tree))
        /\ suffix_tree = SixTwoSub => result = Ok(Primitive(4))
        /\ suffix_tree = SixTwoThreeSubDiv => result = Ok(Primitive(-6))

\* the stack of the walk after units 1..j, none of which returned
RECURSIVE StackAfter(_, _, _)
StackAfter(tree, ctxt, j) ==
    IF j = 0 THEN <<>>
    ELSE WalkUnit(tree[j], ctxt, StackAfter(tree, ctxt, j - 1)).stack

\* the call that returned resolved a unit equal to u as an operand: on the
\* fast path the units eval_without_stack hands to eval_as_borrow_object
\* before it returns, on the general path the operand units the walk reached
Resolved(u) ==
    IF FastPath THEN
        \/ Len(suffix_tree) = 1 /\ suffix_tree[1] = u
        \/ /\ Len(suffix_tree) = 2
           /\ suffix_tree[2].t = "Logical"
           /\ suffix_tree[1] = u
        \/ /\ Len(suffix_tree) = 3
           /\ suffix_tree[3].t \in {"Logical", "Arith"}
           /\ \/ suffix_tree[1] = u
              \/ /\ suffix_tree[2] = u
                 /\ eval_as_borrow_object(suffix_tree[1], context).kind = "Ok"
    ELSE \E j \in 1..Len(suffix_tree) : j <= idx /\ suffix_tree[j] = u

Reserved == {"Within", "Without"}

\* the call that returned applied Within or Without to two present operands
AppliedReserved ==
    IF FastPath THEN
        /\ Len(suffix_tree) = 3
        /\ suffix_tree[3].t = "Logical" /\ suffix_tree[3].op \in Reserved
        /\ \A j \in 1..2 :
              LET r == eval_as_borrow_object(suffix_tree[j], context) IN
              r.kind = "Ok" /\ IsSome(r.val)
    ELSE
        /\ idx <= Len(suffix_tree)
        /\ suffix_tree[idx].t = "Logical" /\ suffix_tree[idx].op \in Reserved
        /\ Len(StackAfter(suffix_tree, context, idx - 1)) >= 2

\* C5: applying Within or Without, on either path and with both operands
\* present, makes eval return the error Unimplemented; it never panics.
C5_ReservedUnimplemented ==
    (Returned /\ AppliedReserved) => result = Err(Unimplemented)

\* C6: whenever a Const(None) unit is resolved as an operand, in a program
\* of any length, eval fails with NoneOperand.
C6_NullConstNoneOperand ==
    (Returned /\ Resolved(Const(NoneObj))) => result = Err(NoneOperand)

\* C7: when the context binds the tag to an element whose property bag lacks
\* the key of a Var unit that eval resolves, eval fails with NoneOperand, for
\* programs of every length.
C7_MissingPropertyNoneOperand ==
    (Returned /\ context = CtxNoAge /\ Resolved(Var("a", "age")))
        => result = Err(NoneOperand)

HasVar == \E j \in 1..Len(suffix_tree) : suffix_tree[j].t = "Var"
VarResolved == Resolved(Var("a", "age")) \/ Resolved(Var("a", ""))

\* C8 (as stated): given no context or the empty context, a program that
\* contains a Var unit fails with MissingContext, whatever its length and
\* whatever units precede the Var.
C8_VarMissingContext ==
    (Returned /\ context \in {NoCtx, EmptyCtx} /\ HasVar)
        => result = Err(MissingContext)

\* C8 (amended): given no context or the empty context, a program that
\* contains a Var unit never returns a value, and it fails with
\* MissingContext whenever the evaluation resolves a Var unit (no earlier
\* unit failed and the fast path did not reject the shape first).
C8_ResolvedVarMissingContext ==
    (Returned /\ context \in {NoCtx, EmptyCtx} /\ HasVar) =>
        /\ result.kind # "Ok"
        /\ VarResolved => result = Err(MissingContext)

\* a walk under the empty context reached a Var after other units
C8_Witness ==
    /\ Returned /\ context = EmptyCtx /\ ~FastPath
    /\ idx > 1 /\ idx <= Len(suffix_tree) /\ suffix_tree[idx].t = "Var"
    /\ result = Err(MissingContext)

\* C9: when the context binds the tag to an element with no property bag,
\* a Var unit with a prop_key resolves to nothing and eval fails with
\* NoneOperand, not with MissingContext.
C9_NoBagNoneOperand ==
    (Returned /\ context = CtxNoBag /\ Resolved(Var("a", "age")))
        => result = Err(NoneOperand)

\* the shape [operand, Not]
OperandNot(tree) ==
    Len(tree) = 2 /\ is_operand(tree[1]) /\ tree[2] = Logical("Not")

\* C10 (as stated): a program of exactly 2 units succeeds only if it has the
\* shape [operand, Not]; every other 2-unit shape fails with
\* InvalidExpression.
C10_TwoUnitsInvalid ==
    (Returned /\ Len(suffix_tree) = 2) =>
        /\ result.kind = "Ok" => OperandNot(suffix_tree)
        /\ ~OperandNot(suffix_tree) => result = Err(InvalidExpression)

\* C10 (amended): a program of exactly 2 units succeeds only if it has the
\* shape [operand, Not]; every other 2-unit shape fails: with
\* InvalidExpression when the second unit is not a logical operator and,
\* when it is one, with MissingContext if the first unit is a Var whose
\* resolution fails and with MissingOperands otherwise.
C10_TwoUnitsFail ==
    (Returned /\ Len(suffix_tree) = 2) =>
        /\ result.kind = "Ok" => OperandNot(suffix_tree)
        /\ ~OperandNot(suffix_tree) =>
              LET r0 == eval_as_borrow_object(suffix_tree[1], context) IN
              result =
                  IF suffix_tree[2].t # "Logical" THEN Err(InvalidExpression)
                  ELSE IF r0.kind # "Ok" THEN Err(MissingContext)
                  ELSE Err(MissingOperands)

\* [operand, Gt] failed with MissingOperands
C10_Witness ==
    /\ Returned /\ Len(suffix_tree) = 2 /\ is_operand(suffix_tree[1])
    /\ suffix_tree[2] = Logical("Gt") /\ result = Err(MissingOperands)

\* the shape [operand, operand, binary operator]
OperandOperandBinary(tree) ==
    /\ Len(tree) = 3 /\ is_operand(tree[1]) /\ is_operand(tree[2])
    /\ Arity(tree[3]) = 2

\* C11: a program of exactly 3 units returns a value only if it has the
\* shape [operand, operand, binary-op]; every other 3-unit shape
\* ([operand, operand, Not], an operator in position 0 or 1, ...) fails with
\* InvalidExpression.
C11_ThreeUnitsInvalid ==
    (Returned /\ Len(suffix_tree) = 3) =>
        /\ result.kind = "Ok" => OperandOperandBinary(suffix_tree)
        /\ ~OperandOperandBinary(suffix_tree)
              => result = Err(InvalidExpression)

\* the walk returned at an operator that found fewer values on the stack
\* than it consumes
Underflow ==
    /\ idx <= Len(suffix_tree)
    /\ ~is_operand(suffix_tree[idx])
    /\ Len(StackAfter(suffix_tree, context, idx - 1)) < Arity(suffix_tree[idx])

\* C12 (as stated): a program of more than 3 units whose operands are
\* present and of suitable type (no cast fails, no operator panics) but
\* whose structure is ill-formed fails with InvalidExpression.
C12_IllFormedInvalid ==
    (Returned /\ ~FastPath /\ ~WellFormed(suffix_tree)
        /\ result # Err(TypeMismatch) /\ result # Panic)
        => result = Err(InvalidExpression)

\* C12 (amended): such a program never returns a value: it fails with
\* MissingOperands when an operator is reached with fewer values on the
\* stack than it consumes, and with InvalidExpression when the walk ends
\* with more than one value on the stack.
C12_IllFormedFails ==
    (Returned /\ ~FastPath /\ ~WellFormed(suffix_tree)) =>
        /\ result.kind # "Ok"
        /\ Underflow => result = Err(MissingOperands)
        /\ idx > Len(suffix_tree) =>
              Len(stack) > 1 /\ result = Err(InvalidExpression)

\* a walk failed at an operator with too few values, with MissingOperands
C12_Witness ==
    /\ Returned /\ ~FastPath /\ ~WellFormed(suffix_tree)
    /\ Underflow /\ result = Err(MissingOperands)

\* what an operand unit denotes under a context (NoneObj: nothing)
Denotes(u, ctxt) ==
    IF u.t = "Const" THEN u.c
    ELSE IF u.t = "Var" /\ ctxt.some /\ ctxt.bound /\ u.tag = "a" THEN
        IF u.prop = "" THEN ctxt.id
        ELSE IF ctxt.bag /\ u.prop = "age" THEN ctxt.age
        ELSE NoneObj
    ELSE NoneObj

\* the context binds the tag of the Var unit to no element
Unbound(u, ctxt) == u.t = "Var" /\ ctxt.some /\ ~CtxGet(ctxt, u.tag)

\* C13 (as stated): a program of exactly 1 unit returns the value its
\* operand denotes when there is one; a Var whose tag is bound to no element
\* yields NoneOperand; a lone operator unit yields InvalidExpression.
C13_OneUnit ==
    (Returned /\ Len(suffix_tree) = 1) =>
        LET u == suffix_tree[1] IN
        /\ (is_operand(u) /\ IsSome(Denotes(u, context)))
              => result = Ok(Denotes(u, context))
        /\ Unbound(u, context) => result = Err(NoneOperand)
        /\ ~is_operand(u) => result = Err(InvalidExpression)

\* C13 (amended): a program of exactly 1 unit returns the value its operand
\* denotes when there is one; a Var whose tag is bound to no element yields
\* MissingContext; a lone operator unit yields NoneOperand.
C13_OneUnitAsCoded ==
    (Returned /\ Len(suffix_tree) = 1) =>
        LET u == suffix_tree[1] IN
        /\ (is_operand(u) /\ IsSome(Denotes(u, context)))
              => result = Ok(Denotes(u, context))
        /\ Unbound(u, context) => result = Err(MissingContext)
        /\ ~is_operand(u) => result = Err(NoneOperand)

\* a lone Var under the empty context failed with MissingContext
C13_Witness ==
    /\ Returned /\ Len(suffix_tree) = 1 /\ Unbound(suffix_tree[1], context)
    /\ result = Err(MissingContext)

\* the applications of a binary operator to two present operands that the
\* current state shows: the operator, its left and right operand and its
\* outcome.  On the fast path, the application of the last unit of a 3-unit
\* program; in the walk, the application that made it return and the one
\* whose result was just pushed.
Application(op, a, b, out) == [op |-> op, a |-> a, b |-> b, out |-> out]
Applications ==
    IF FastPath THEN
        IF /\ Returned /\ Len(suffix_tree) = 3
           /\ ~is_operand(suffix_tree[3]) /\ Arity(suffix_tree[3]) = 2
        THEN LET r0 == eval_as_borrow_object(suffix_tree[1], context)
                 r1 == eval_as_borrow_object(suffix_tree[2], context)
             IN  IF /\ r0.kind = "Ok" /\ IsSome(r0.val)
                    /\ r1.kind = "Ok" /\ IsSome(r1.val)
                 THEN {Application(suffix_tree[3].op, r0.val, r1.val, result)}
                 ELSE {}
        ELSE {}
    ELSE
        (IF /\ Returned /\ idx >= 1 /\ idx <= Len(suffix_tree)
            /\ ~is_operand(suffix_tree[idx]) /\ Arity(suffix_tree[idx]) = 2
         THEN LET s == StackAfter(suffix_tree, context, idx - 1) IN
              IF Len(s) >= 2
              THEN {Application(suffix_tree[idx].op, s[Len(s) - 1],
                                s[Len(s)], result)}
              ELSE {}
         ELSE {})
        \cup
        (IF /\ pc = "running" /\ idx >= 2
            /\ ~is_operand(suffix_tree[idx - 1])
            /\ Arity(suffix_tree[idx - 1]) = 2
         THEN LET s == StackAfter(suffix_tree, context, idx - 2) IN
              {Application(suffix_tree[idx - 1].op, s[Len(s) - 1],
                           s[Len(s)], Ok(Top(stack)))}
         ELSE {})

\* the values as_bool converts
Convertible(v) == v.k \in {"Bool", "Primitive"}
Truth(v) == IF v.k = "Bool" THEN v.b ELSE v.n # 0

\* C14 (as stated): And and Or coerce both operands: if either present
\* operand is not convertible to bool, the application fails with a type
\* mismatch, whatever the other operand.
C14_AndOrCoerceBoth ==
    \A ap \in Applications :
        (ap.op \in {"And", "Or"} /\ (~Convertible(ap.a) \/ ~Convertible(ap.b)))
            => ap.out = Err(TypeMismatch)

\* C14 (amended): And and Or coerce the left operand, and the right operand
\* only when the left one does not decide the result: a left operand that
\* is not convertible fails with a type mismatch; false And b is false and
\* true Or b is true whatever b is; otherwise the result is the coercion of
\* b, a type mismatch when b is not convertible.
C14_AndOrShortCircuit ==
    \A ap \in Applications :
        ap.op \in {"And", "Or"} =>
            ap.out =
                IF ~Convertible(ap.a) THEN Err(TypeMismatch)
                ELSE IF Truth(ap.a) = (ap.op = "Or") THEN Ok(Bool(ap.op = "Or"))
                ELSE IF ~Convertible(ap.b) THEN Err(TypeMismatch)
                ELSE Ok(Bool(Truth(ap.b)))

\* And was applied to false and a string and returned false, in the walk
C14_Witness ==
    /\ ~FastPath
    /\ Application("And", Bool(FALSE), String("s"), Ok(Bool(FALSE)))
          \in Applications

Comparisons == {"Eq", "Ne", "Lt", "Le", "Gt", "Ge"}

\* C15 (as stated): a comparison of two present operands of different value
\* kinds fails with TypeMismatch and never returns a boolean.
C15_CrossKindMismatch ==
    \A ap \in Applications :
        (ap.op \in Comparisons /\ ap.a.k # ap.b.k)
            => ap.out = Err(TypeMismatch)

\* C15 (amended): a comparison of two present operands, of the same or of
\* different value kinds, returns a boolean; it never fails.
C15_ComparisonReturnsBool ==
    \A ap \in Applications :
        ap.op \in Comparisons => (ap.out.kind = "Ok" /\ ap.out.val.k = "Bool")

\* a comparison of a boolean with a string returned a boolean
C15_Witness ==
    \E ap \in Applications :
        /\ ap.op \in Comparisons /\ ap.a.k = "Bool" /\ ap.b.k = "String"
        /\ ap.out.kind = "Ok" /\ ap.out.val.k = "Bool"

\* C16: Div or Mod applied to two present numeric operands whose right
\* operand is zero returns the error DivisionByZero, on both paths; it
\* neither panics nor returns a value.
C16_DivisionByZero ==
    \A ap \in Applications :
        (/\ ap.op \in {"Div", "Mod"}
         /\ ap.a.k = "Primitive" /\ ap.b.k = "Primitive" /\ ap.b.n = 0)
            => ap.out = Err(DivisionByZero)

\* the number of units the walk has gone past
Processed == IF idx = 0 THEN 0 ELSE idx - 1

\* C20: in every reachable state the number of values on the stack is at
\* most the number of program units processed so far, and so at most the
\* length of the program.
C20_StackDepth ==
    /\ Len(stack) <= Processed
    /\ Processed <= Len(suffix_tree)

\* a walk entered with values left by an earlier call holds one value per
\* unit processed, two units into the program
C20_Witness ==
    /\ pc = "running" /\ entry > 0
    /\ idx = 3 /\ Len(stack) = 2


(* ------------------------------ translation ---------------------------- *)
\* from_pb has returned
Translated == pc # "new"

\* a wire unit from_pb has no defined translation for: an operator code
\* outside the enumeration, or a variable without a tag
Undefined(w) ==
    \/ w.item = "Logical" /\ w.code \notin 0..(Len(LogicalCodes) - 1)
    \/ w.item = "Arith" /\ w.code \notin 0..(Len(ArithCodes) - 1)
    \/ w.item = "Var" /\ ~w.has_tag

\* C17: from_pb is total: on a wire unit with an operator code outside the
\* enumeration or a variable without a tag it returns an InvalidProgram
\* error; it never panics and never builds a program holding an operator
\* outside the enumeration.
C17_FromPbTotal ==
    Translated =>
        /\ pc = "failed" => result = Err(InvalidPb)
        /\ \A i \in DOMAIN suffix_tree : suffix_tree[i].op # OutOfRange
        /\ (\E i \in DOMAIN wire : Undefined(wire[i])) => pc = "failed"

\* a wire unit whose translation is an error: an empty unit, a constant with
\* no value item, an array constant
Untranslatable(w) ==
    \/ w.item = "Empty"
    \/ w.item = "Const"
        /\ w.value \in {"NoValue", "NoItem", "I32Array", "I64Array",
                        "F64Array", "StrArray"}

\* the unit u is the translation of the wire unit w
Translates(w, u) ==
    /\ u.t = w.item
    /\ w.item = "Const" =>
            u.c = (IF w.value = "None" THEN NoneObj ELSE w.obj)
    /\ w.item = "Var" => u.tag = w.tag /\ u.prop = w.prop
    /\ w.item = "Logical" /\ ~Undefined(w) => u.op = LogicalCodes[w.code + 1]
    /\ w.item = "Arith" /\ ~Undefined(w) => u.op = ArithCodes[w.code + 1]

\* C18: building an evaluator is all-or-nothing: if a wire unit fails
\* translation from_pb returns an error and no program; otherwise the program
\* built has one unit per wire unit, in the same order, a null constant
\* becoming Const(None).
C18_AllOrNothing ==
    Translated =>
        IF \E i \in DOMAIN wire : Untranslatable(wire[i])
        THEN pc = "failed" /\ result = Err(InvalidPb) /\ suffix_tree = <<>>
        ELSE /\ pc # "failed"
             /\ Len(suffix_tree) = Len(wire)
             /\ \A i \in DOMAIN wire : Translates(wire[i], suffix_tree[i])


(* --------------------------------- backups ----------------------------- *)
\* C19: a backup is a snapshot of the store at its creation: the store
\* restored from backup k holds exactly the vertices present when backup k
\* was created, restore_from_latest_backup restores the backup created last,
\* and the id of a new backup is greater than the id of every earlier one.
C19_BackupSnapshot ==
    /\ [](restored.id # 0 => restored.vertices = taken[restored.id])
    /\ [][RestoreFromLatestBackup =>
            restored'.id = Len(taken) /\ restored'.vertices = taken[Len(taken)]
         ]_vars
    /\ [][Len(taken') > Len(taken) =>
            \A k \in DOMAIN taken : backups'[Len(backups')].id > k]_vars

\* the store restored from an earlier backup holds a vertex deleted since,
\* and the latest backup restored is not the first one
C19_Witness ==
    /\ restored.id # 0
    /\ restored.vertices \ vertices # {}
    /\ Len(backups) > 1
    /\ restored.id = backups[Len(backups)].id
    /\ restored.vertices # backups[1].vertices


(* --------------------------- internal assertions ----------------------- *)
\* C21: the internal assertions of the evaluator hold in every reachable
\* state: eval_without_stack is entered only with a program of at most three
\* units, the operator branch of the walk is reached only for Logical and
\* Arith units, and the Not arm of the binary match of apply_logical is never
\* taken, so no call ends in a failed assertion or in unreachable!().
C21_AssertionsHold ==
    /\ result # AssertionFailed
    /\ result # Unreachable
    /\ pc = "running" /\ idx \in DOMAIN suffix_tree =>
            \/ is_operand(suffix_tree[idx])
            \/ suffix_tree[idx].t \in {"Logical", "Arith"}

\* a walk over more than three units that applied a binary comparison and
\* then Not, and returned a value
C21_Witness ==
    /\ Returned
    /\ ~FastPath
    /\ result.kind = "Ok"
    /\ \E i \in DOMAIN suffix_tree :
          /\ suffix_tree[i] = Logical("Gt")
          /\ \E j \in DOMAIN suffix_tree : j > i /\ suffix_tree[j] = Logical("Not")

====
